---------------------------- MODULE Spec2Model ----------------------------
(***************************************************************************)
(* Model of the PSLab logic analyzer driver,                               *)
(* src/src/instruments/logic_analyzer.c.                                   *)
(*                                                                         *)
(* The driver's own state is g_num_channels and g_initial_states.  The     *)
(* peripherals it drives (TMR5, IC1-4, CN, DMA0-3, the LA pins) are kept   *)
(* as records holding what the driver's calls set in them.  Every C        *)
(* function is an operator from a machine state S (a record of all of the  *)
(* above) to the machine state after the call; the actions apply them.     *)
(***************************************************************************)
EXTENDS Integers, Sequences, FiniteSets, TLC

(***************************************************************************)
(* Program constants.                                                      *)
(***************************************************************************)
CHANNEL_1 == 0
CHANNEL_2 == 1
CHANNEL_3 == 2
CHANNEL_4 == 3
CHANNEL_NUMEL == 4
\* Any value outside 0 .. CHANNEL_NUMEL-1 serves as the sentinel.
CHANNEL_NONE == 255
\* Capacity of the sample buffer, in timestamps ("Up to 10k timestamps").
BUFFER_SIZE == 10000

EDGE_NONE == "NONE"
EDGE_ANY == "ANY"
EDGE_FALLING == "FALLING"
EDGE_RISING == "RISING"

SUCCESS == "SUCCESS"
ARGUMENT_ERROR == "ARGUMENT_ERROR"

Channels == 0 .. (CHANNEL_NUMEL - 1)
Edges == {EDGE_NONE, EDGE_ANY, EDGE_FALLING, EDGE_RISING}
TriggerPins == Channels \cup {CHANNEL_NONE}

(***************************************************************************)
(* Bounds of the model.                                                    *)
(***************************************************************************)
\* num_channels is a byte read from the UART; 0 .. MaxChannelArg are offered.
MaxChannelArg == 5
\* PINS_get_la_states() returns a byte; levels 0 .. MaxPinLevels are offered.
MaxPinLevels == 1
\* events is a 16-bit value read from the UART; these values are offered.
EventValues == {0, 100, 2501, 65535}
PinLevels == 0 .. MaxPinLevels
ChannelArgs == 0 .. MaxChannelArg

VARIABLES
    tmr,               \* TMR5: [running, period]
    ic,                \* IC1-4: [active, edge, int_en] per channel
    cn,                \* CN: [armed, pin]
    dma,               \* DMA0-3: [enabled, int_en, count, addr, done] per channel
    g_num_channels,    \* static uint8_t g_num_channels
    g_initial_states,  \* static uint8_t g_initial_states
    pins,              \* current logic levels of LA1-4
    call,              \* the step that ran last: [op, ret, val]
    sess,              \* the request of the capture session in flight
    pc,                \* position of the main context inside a stepwise LA_stop
    stop_i             \* loop index of a stepwise LA_stop

hw == <<tmr, ic, cn, dma, g_num_channels, g_initial_states>>
vars == <<tmr, ic, cn, dma, g_num_channels, g_initial_states, pins,
          call, sess, pc, stop_i>>

(***************************************************************************)
(* The machine state as one record, and its write-back.                    *)
(***************************************************************************)
State ==
    [tmr |-> tmr, ic |-> ic, cn |-> cn, dma |-> dma,
     g_num_channels |-> g_num_channels,
     g_initial_states |-> g_initial_states,
     pins |-> pins]

Commit(S) ==
    /\ tmr' = S.tmr
    /\ ic' = S.ic
    /\ cn' = S.cn
    /\ dma' = S.dma
    /\ g_num_channels' = S.g_num_channels
    /\ g_initial_states' = S.g_initial_states
    /\ pins' = S.pins

(***************************************************************************)
(* Peripheral collaborators (registers_ng): what each call leaves behind.  *)
(***************************************************************************)
TmrIdle == [running |-> FALSE, period |-> 0]
IcIdle == [active |-> FALSE, edge |-> EDGE_NONE, int_en |-> FALSE]
CnIdle == [armed |-> FALSE, pin |-> CHANNEL_NONE]
DmaIdle == [enabled |-> FALSE, int_en |-> FALSE, count |-> 0, addr |-> 0,
            done |-> 0]

TMR_set_period(S, period) == [S EXCEPT !.tmr.period = period]
TMR_start(S) == [S EXCEPT !.tmr.running = TRUE]
TMR_reset(S) == [S EXCEPT !.tmr = TmrIdle]

PINS_get_la_states(S) == S.pins

\* A channel argument outside IC1-4 addresses no unit.
IC_start(S, c, edge) ==
    IF c \in Channels
    THEN [S EXCEPT !.ic[c].active = TRUE, !.ic[c].edge = edge]
    ELSE S
IC_reset(S, c) == IF c \in Channels THEN [S EXCEPT !.ic[c] = IcIdle] ELSE S
IC_interrupt_enable(S, c) ==
    IF c \in Channels THEN [S EXCEPT !.ic[c].int_en = TRUE] ELSE S
IC_interrupt_disable(S, c) ==
    IF c \in Channels THEN [S EXCEPT !.ic[c].int_en = FALSE] ELSE S

CN_interrupt_enable(S, pin) == [S EXCEPT !.cn = [armed |-> TRUE, pin |-> pin]]
CN_reset(S) == [S EXCEPT !.cn = CnIdle]

DMA_setup(S, c, count, address) ==
    IF c \in Channels
    THEN [S EXCEPT !.dma[c].count = count, !.dma[c].addr = address,
                   !.dma[c].done = 0]
    ELSE S
DMA_interrupt_enable(S, c) ==
    IF c \in Channels THEN [S EXCEPT !.dma[c].int_en = TRUE] ELSE S
DMA_start(S, c) ==
    IF c \in Channels THEN [S EXCEPT !.dma[c].enabled = TRUE] ELSE S
DMA_reset(S, c) == IF c \in Channels THEN [S EXCEPT !.dma[c] = DmaIdle] ELSE S

(***************************************************************************)
(* Static functions of logic_analyzer.c.                                   *)
(***************************************************************************)
\* The unrolled switch (g_num_channels) with its fall-through cases.
trigger_switch(S) ==
    LET n == S.g_num_channels
        S4 == IF n = 4 THEN DMA_start(S, CHANNEL_4) ELSE S
        S3 == IF n \in {3, 4} THEN DMA_start(S4, CHANNEL_3) ELSE S4
        S2 == IF n \in {2, 3, 4} THEN DMA_start(S3, CHANNEL_2) ELSE S3
        S1 == IF n \in {1, 2, 3, 4} THEN DMA_start(S2, CHANNEL_1) ELSE S2
    IN  S1

trigger(S) ==
    LET S1 == TMR_set_period(S, 1)
        S2 == TMR_start(S1)
        S3 == [S2 EXCEPT !.g_initial_states = PINS_get_la_states(S2)]
        S4 == trigger_switch(S3)
    IN  TMR_set_period(S4, 0)

\* The case label the switch (g_num_channels) of trigger() jumps to.
trigger_case(n) ==
    IF n = 4 THEN "t_dma4"
    ELSE IF n = 3 THEN "t_dma3"
    ELSE IF n = 2 THEN "t_dma2"
    ELSE IF n = 1 THEN "t_dma1"
    ELSE "t_restore"

\* Fault of trigger_stmt: every case of the switch ends in a break.
trigger_stmt_case_breaks(S, at) ==
    CASE at = "t_period" -> [st |-> TMR_set_period(S, 1), next |-> "t_start"]
      [] at = "t_start" -> [st |-> TMR_start(S), next |-> "t_snapshot"]
      [] at = "t_snapshot" ->
             [st |-> [S EXCEPT !.g_initial_states = PINS_get_la_states(S)],
              next |-> "t_switch"]
      [] at = "t_switch" ->
             [st |-> S, next |-> trigger_case(S.g_num_channels)]
      [] at = "t_dma4" -> [st |-> DMA_start(S, CHANNEL_4), next |-> "t_restore"]
      [] at = "t_dma3" -> [st |-> DMA_start(S, CHANNEL_3), next |-> "t_restore"]
      [] at = "t_dma2" -> [st |-> DMA_start(S, CHANNEL_2), next |-> "t_restore"]
      [] at = "t_dma1" -> [st |-> DMA_start(S, CHANNEL_1), next |-> "t_restore"]
      [] at = "t_restore" -> [st |-> TMR_set_period(S, 0), next |-> "main"]

\* trigger() one statement at a time: the state after the statement at
\* position at, and the position of the statement that runs next ("main"
\* when trigger() returns).
trigger_stmt(S, at) ==
    CASE at = "t_period" -> [st |-> TMR_set_period(S, 1), next |-> "t_start"]
      [] at = "t_start" -> [st |-> TMR_start(S), next |-> "t_snapshot"]
      [] at = "t_snapshot" ->
             [st |-> [S EXCEPT !.g_initial_states = PINS_get_la_states(S)],
              next |-> "t_switch"]
      [] at = "t_switch" ->
             [st |-> S, next |-> trigger_case(S.g_num_channels)]
      [] at = "t_dma4" -> [st |-> DMA_start(S, CHANNEL_4), next |-> "t_dma3"]
      [] at = "t_dma3" -> [st |-> DMA_start(S, CHANNEL_3), next |-> "t_dma2"]
      [] at = "t_dma2" -> [st |-> DMA_start(S, CHANNEL_2), next |-> "t_dma1"]
      [] at = "t_dma1" -> [st |-> DMA_start(S, CHANNEL_1), next |-> "t_restore"]
      [] at = "t_restore" -> [st |-> TMR_set_period(S, 0), next |-> "main"]

\* The statements from position at to the return of trigger(), in a row.
RECURSIVE trigger_run(_, _)
trigger_run(S, at) ==
    IF at = "main"
    THEN S
    ELSE trigger_run(trigger_stmt(S, at).st, trigger_stmt(S, at).next)

\* Fault of ic_callback: the IC interrupt is left enabled.
ic_callback_stays_armed(S, channel) == trigger(S)

ic_callback(S, channel) == trigger(IC_interrupt_disable(S, channel))

cn_callback(S, channel) == trigger(CN_reset(S))

\* Fault of cleanup_callback: the counter is not decremented.
cleanup_callback_keeps_counter(S, channel) ==
    LET S1 == DMA_reset(S, channel)
        S2 == IC_reset(S1, channel)
    IN  IF S2.g_num_channels = 0 THEN TMR_reset(S2) ELSE S2

\* Faults of cleanup_callback: the Timer is reset on every completion; the
\* channel's IC unit is left running.
cleanup_callback_always_reset(S, channel) ==
    LET S1 == DMA_reset(S, channel)
        S2 == IC_reset(S1, channel)
        S3 == [S2 EXCEPT !.g_num_channels = (S2.g_num_channels - 1) % 256]
    IN  TMR_reset(S3)

cleanup_callback_leaves_ic(S, channel) ==
    LET S1 == DMA_reset(S, channel)
        S3 == [S1 EXCEPT !.g_num_channels = (S1.g_num_channels - 1) % 256]
    IN  IF S3.g_num_channels = 0 THEN TMR_reset(S3) ELSE S3

cleanup_callback(S, channel) ==
    LET S1 == DMA_reset(S, channel)
        S2 == IC_reset(S1, channel)
        S3 == [S2 EXCEPT !.g_num_channels = (S2.g_num_channels - 1) % 256]
    IN  IF S3.g_num_channels = 0 THEN TMR_reset(S3) ELSE S3

\* Faults of configure_trigger: the immediate case is missing; the IC
\* interrupt serves every edge; the CN interrupt serves every edge.
configure_trigger_no_immediate(S, edge, trigger_pin) ==
    IF edge = EDGE_ANY
    THEN CN_interrupt_enable(S, trigger_pin)
    ELSE IC_interrupt_enable(S, trigger_pin)

configure_trigger_ic_only(S, edge, trigger_pin) ==
    IF trigger_pin = CHANNEL_NONE
    THEN trigger(S)
    ELSE IC_interrupt_enable(S, trigger_pin)

configure_trigger_cn_only(S, edge, trigger_pin) ==
    IF trigger_pin = CHANNEL_NONE
    THEN trigger(S)
    ELSE CN_interrupt_enable(S, trigger_pin)

configure_trigger(S, edge, trigger_pin) ==
    IF trigger_pin = CHANNEL_NONE
    THEN trigger(S)
    ELSE IF edge = EDGE_ANY
         THEN CN_interrupt_enable(S, trigger_pin)
         ELSE IC_interrupt_enable(S, trigger_pin)

\* Fault of capture_address: the buffer is always split four ways.
capture_address_quarters(i, num_channels) ==
    (i * BUFFER_SIZE) \div CHANNEL_NUMEL

\* Offset, in timestamps from BUFFER, of channel i's destination.
capture_address(i, num_channels) == (i * BUFFER_SIZE) \div num_channels

\* Fault of capture_channel: the event count is shared out over the channels.
capture_channel_split(S, i, num_channels, events, edge) ==
    LET S1 == DMA_setup(S, i, events \div num_channels,
                        capture_address(i, num_channels))
        S2 == DMA_interrupt_enable(S1, i)
    IN  IC_start(S2, i, edge)

\* One iteration of the for loop of capture().
capture_channel(S, i, num_channels, events, edge) ==
    LET S1 == DMA_setup(S, i, events, capture_address(i, num_channels))
        S2 == DMA_interrupt_enable(S1, i)
    IN  IC_start(S2, i, edge)

RECURSIVE capture_loop(_, _, _, _, _)
capture_loop(S, i, num_channels, events, edge) ==
    IF i < num_channels
    THEN capture_loop(capture_channel(S, i, num_channels, events, edge),
                      i + 1, num_channels, events, edge)
    ELSE S

\* Fault of capture: g_num_channels is not set for the new session.
capture_keeps_counter(S, num_channels, events, edge, trigger_pin) ==
    configure_trigger(capture_loop(S, 0, num_channels, events, edge),
                      edge, trigger_pin)

capture(S, num_channels, events, edge, trigger_pin) ==
    LET S1 == [S EXCEPT !.g_num_channels = num_channels]
        S2 == capture_loop(S1, 0, num_channels, events, edge)
    IN  configure_trigger(S2, edge, trigger_pin)

(***************************************************************************)
(* Public functions.  Each gives the state after the call and the response.*)
(***************************************************************************)
\* Fault of LA_capture: the edge is not validated.
LA_capture_no_edge_check(S, num_channels, events, edge, trigger_pin) ==
    IF num_channels = 0
    THEN [st |-> S, resp |-> ARGUMENT_ERROR]
    ELSE IF num_channels > CHANNEL_NUMEL
    THEN [st |-> S, resp |-> ARGUMENT_ERROR]
    ELSE [st |-> capture(S, num_channels, events, edge, trigger_pin),
          resp |-> SUCCESS]

LA_capture(S, num_channels, events, edge, trigger_pin) ==
    IF num_channels = 0
    THEN [st |-> S, resp |-> ARGUMENT_ERROR]
    ELSE IF num_channels > CHANNEL_NUMEL
    THEN [st |-> S, resp |-> ARGUMENT_ERROR]
    ELSE IF edge = EDGE_NONE
    THEN [st |-> S, resp |-> ARGUMENT_ERROR]
    ELSE [st |-> capture(S, num_channels, events, edge, trigger_pin),
          resp |-> SUCCESS]

\* One iteration of the for loop of LA_stop().
stop_channel(S, i) == DMA_reset(IC_reset(S, i), i)

RECURSIVE stop_loop(_, _)
stop_loop(S, i) ==
    IF i < CHANNEL_NUMEL THEN stop_loop(stop_channel(S, i), i + 1) ELSE S

\* Faults of LA_stop: the loop stops one channel short; the channels are
\* torn down through cleanup_callback.
LA_stop_short_loop(S) ==
    [st |-> stop_channel(stop_channel(stop_channel(
                TMR_reset(CN_reset(S)), 0), 1), 2),
     resp |-> SUCCESS]

LA_stop_by_cleanup(S) ==
    [st |-> cleanup_callback(cleanup_callback(cleanup_callback(
                cleanup_callback(TMR_reset(CN_reset(S)), 0), 1), 2), 3),
     resp |-> SUCCESS]

LA_stop(S) ==
    [st |-> stop_loop(TMR_reset(CN_reset(S)), 0), resp |-> SUCCESS]

\* Fault of LA_get_initial_states: the live pin levels are sent.
LA_get_initial_states_live(S) ==
    [st |-> S, out |-> PINS_get_la_states(S), resp |-> SUCCESS]

LA_get_initial_states(S) ==
    [st |-> S, out |-> S.g_initial_states, resp |-> SUCCESS]

(***************************************************************************)
(* Initial state: after reset, before any command.                         *)
(***************************************************************************)
NoSession == [n |-> 0, events |-> 0, edge |-> EDGE_NONE,
              trig |-> CHANNEL_NONE]

\* The record of the step that ran last.  val is the byte LA_get_initial_states
\* sent on the UART, the channel of an interrupt, or the number of channels of
\* the session LA_stop was called in.
Ran(op, ret, val) == [op |-> op, ret |-> ret, val |-> val]

Init ==
    /\ tmr = TmrIdle
    /\ ic = [c \in Channels |-> IcIdle]
    /\ cn = CnIdle
    /\ dma = [c \in Channels |-> DmaIdle]
    /\ g_num_channels = 0
    /\ g_initial_states = 0
    /\ pins \in PinLevels
    /\ call = Ran("reset", SUCCESS, 0)
    /\ sess = NoSession
    /\ pc = "main"
    /\ stop_i = 0

\* Every peripheral is in its reset state and no trigger source is armed.
AllIdle(S) ==
    /\ S.tmr = TmrIdle
    /\ S.cn = CnIdle
    /\ \A c \in Channels : S.ic[c] = IcIdle /\ S.dma[c] = DmaIdle

ValidRequest(n, e) == n >= 1 /\ n <= CHANNEL_NUMEL /\ e # EDGE_NONE

(***************************************************************************)
(* Actions of the main context (command handlers).                         *)
(***************************************************************************)
\* LA_capture with a request it accepts.  The driver is used one session at
\* a time: a request is sent when the previous capture has completed or has
\* been stopped.
CaptureFrom(events) ==
    /\ pc = "main"
    /\ AllIdle(State)
    /\ \E n \in ChannelArgs, ev \in events, e \in Edges, t \in TriggerPins :
           LET r == LA_capture(State, n, ev, e, t)
           IN  /\ r.resp = SUCCESS
               /\ Commit(r.st)
               /\ call' = Ran("LA_capture", r.resp, 0)
               /\ sess' = [n |-> n, events |-> ev, edge |-> e, trig |-> t]
               /\ UNCHANGED <<pc, stop_i>>

CaptureCommand == CaptureFrom(EventValues)

\* LA_capture with a request it rejects, sent at any time.  The fields that
\* decide the rejection, num_channels and edge, take every offered value.
CaptureRejected ==
    LET requests == {q \in ChannelArgs \X Edges : ~ValidRequest(q[1], q[2])}
        results == {LA_capture(State, q[1], 0, q[2], CHANNEL_NONE) :
                        q \in requests}
    IN  /\ pc = "main"
        /\ \E r \in results :
               /\ r.resp # SUCCESS
               /\ Commit(r.st)
               /\ call' = Ran("LA_capture", r.resp, 0)
               /\ UNCHANGED <<sess, pc, stop_i>>

\* LA_stop, run without interruption.  It ends the session in flight.
StopCommand ==
    LET r == LA_stop(State)
    IN  /\ pc = "main"
        /\ Commit(r.st)
        /\ call' = Ran("LA_stop", r.resp, sess.n)
        /\ sess' = NoSession
        /\ UNCHANGED <<pc, stop_i>>

GetInitialStatesCommand ==
    LET r == LA_get_initial_states(State)
    IN  /\ pc = "main"
        /\ Commit(r.st)
        /\ call' = Ran("LA_get_initial_states", r.resp, r.out)
        /\ UNCHANGED <<sess, pc, stop_i>>

(***************************************************************************)
(* Environment and interrupt contexts.  An interrupt runs to completion    *)
(* and may be serviced between any two steps of the main context.          *)
(***************************************************************************)
\* The logic levels on LA1-4 change.
PinChange ==
    \E p \in PinLevels :
        /\ p # pins
        /\ pins' = p
        /\ call' = Ran("pins", SUCCESS, 0)
        /\ UNCHANGED <<hw, sess, pc, stop_i>>

\* ICx sees its configured edge while its interrupt is enabled.
IcInterrupt ==
    \E c \in Channels :
        /\ ic[c].active
        /\ ic[c].int_en
        /\ Commit(ic_callback(State, c))
        /\ call' = Ran("ic_callback", SUCCESS, c)
        /\ UNCHANGED <<sess, pc, stop_i>>

\* The pin CN is armed on changes level.
CnInterrupt ==
    /\ cn.armed
    /\ Commit(cn_callback(State, cn.pin))
    /\ call' = Ran("cn_callback", SUCCESS, 0)
    /\ UNCHANGED <<sess, pc, stop_i>>

\* Transfer counts a running DMA channel passes through on its way to count.
Progress(count) == {d \in {count} : 1 <= d}

\* ICx latches timestamps and DMA(x-1) moves them to the sample buffer.
DmaTransfer ==
    \E c \in Channels :
        \E d \in Progress(dma[c].count) :
            /\ dma[c].enabled
            /\ ic[c].active
            /\ d > dma[c].done
            /\ dma' = [dma EXCEPT ![c].done = d]
            /\ call' = Ran("dma_transfer", SUCCESS, c)
            /\ UNCHANGED <<tmr, ic, cn, g_num_channels, g_initial_states,
                           pins, sess, pc, stop_i>>

\* DMA(x-1) has moved its configured count and interrupts.  The session is
\* over when the counter of active channels has reached zero.
DmaInterrupt ==
    \E c \in Channels :
        /\ dma[c].enabled
        /\ dma[c].int_en
        /\ dma[c].done = dma[c].count
        /\ Commit(cleanup_callback(State, c))
        /\ call' = Ran("cleanup_callback", SUCCESS, c)
        /\ sess' = IF g_num_channels' = 0 THEN NoSession ELSE sess
        /\ UNCHANGED <<pc, stop_i>>

Next ==
    \/ CaptureCommand
    \/ CaptureRejected
    \/ StopCommand
    \/ GetInitialStatesCommand
    \/ PinChange
    \/ IcInterrupt
    \/ CnInterrupt
    \/ DmaTransfer
    \/ DmaInterrupt

Spec == Init /\ [][Next]_vars

(***************************************************************************)
(* LA_stop statement by statement.  It runs in the main context with       *)
(* interrupts enabled, so a callback may be serviced between any two of    *)
(* its statements.                                                         *)
(***************************************************************************)
\* The request values offered where the interleaving is what matters.
PreemptEvents == {100}

CaptureBeforeStop == CaptureFrom(PreemptEvents)

StopCnReset ==
    /\ pc = "main"
    /\ Commit(CN_reset(State))
    /\ pc' = "stop_tmr"
    /\ call' = Ran("LA_stop_enter", SUCCESS, sess.n)
    /\ UNCHANGED <<sess, stop_i>>

StopTmrReset ==
    /\ pc = "stop_tmr"
    /\ Commit(TMR_reset(State))
    /\ pc' = "stop_loop"
    /\ stop_i' = 0
    /\ UNCHANGED <<call, sess>>

StopChannel ==
    /\ pc = "stop_loop"
    /\ stop_i < CHANNEL_NUMEL
    /\ Commit(stop_channel(State, stop_i))
    /\ stop_i' = stop_i + 1
    /\ UNCHANGED <<call, sess, pc>>

StopReturn ==
    /\ pc = "stop_loop"
    /\ stop_i >= CHANNEL_NUMEL
    /\ pc' = "main"
    /\ stop_i' = 0
    /\ call' = Ran("LA_stop", SUCCESS, sess.n)
    /\ sess' = NoSession
    /\ UNCHANGED <<hw, pins>>

NextPreempt ==
    \/ CaptureBeforeStop
    \/ StopCnReset
    \/ StopTmrReset
    \/ StopChannel
    \/ StopReturn
    \/ IcInterrupt
    \/ CnInterrupt
    \/ DmaTransfer
    \/ DmaInterrupt

SpecPreempt == Init /\ [][NextPreempt]_vars

(***************************************************************************)
(* trigger() statement by statement.  It runs inside LA_capture when the   *)
(* trigger pin is CHANNEL_NONE and inside ic_callback and cn_callback      *)
(* otherwise.  The pins and the DMA hardware move on between its           *)
(* statements; the other interrupts are serviced once it has returned.     *)
(***************************************************************************)
TriggerLabels == {"t_period", "t_start", "t_snapshot", "t_switch", "t_dma4",
                  "t_dma3", "t_dma2", "t_dma1", "t_restore"}

\* The request values offered where the order of the statements is what
\* matters.
TriggerEvents == {100}

\* An accepted LA_capture.  With trigger_pin = CHANNEL_NONE it has come to
\* the call of trigger() in configure_trigger(); otherwise it has returned.
CaptureToTrigger ==
    /\ pc = "main"
    /\ AllIdle(State)
    /\ \E n \in ChannelArgs, ev \in TriggerEvents, e \in Edges,
          t \in TriggerPins :
           LET r == LA_capture(State, n, ev, e, t)
               S1 == [State EXCEPT !.g_num_channels = n]
               S2 == capture_loop(S1, 0, n, ev, e)
           IN  /\ r.resp = SUCCESS
               /\ IF t = CHANNEL_NONE
                  THEN Commit(S2) /\ pc' = "t_period"
                  ELSE Commit(r.st) /\ pc' = pc
               /\ call' = Ran("LA_capture", r.resp, 0)
               /\ sess' = [n |-> n, events |-> ev, edge |-> e, trig |-> t]
               /\ UNCHANGED stop_i

\* ic_callback up to its call of trigger().
IcCallbackEnter ==
    /\ pc = "main"
    /\ \E c \in Channels :
           /\ ic[c].active
           /\ ic[c].int_en
           /\ Commit(IC_interrupt_disable(State, c))
           /\ call' = Ran("ic_callback", SUCCESS, c)
    /\ pc' = "t_period"
    /\ UNCHANGED <<sess, stop_i>>

\* cn_callback up to its call of trigger().
CnCallbackEnter ==
    /\ pc = "main"
    /\ cn.armed
    /\ Commit(CN_reset(State))
    /\ call' = Ran("cn_callback", SUCCESS, 0)
    /\ pc' = "t_period"
    /\ UNCHANGED <<sess, stop_i>>

\* One statement of trigger().
TriggerStatement ==
    /\ pc \in TriggerLabels
    /\ Commit(trigger_stmt(State, pc).st)
    /\ pc' = trigger_stmt(State, pc).next
    /\ call' = IF pc' = "main" THEN Ran("trigger", SUCCESS, 0) ELSE call
    /\ UNCHANGED <<sess, stop_i>>

\* The completion interrupt, serviced when trigger() has returned.
DmaInterruptAfterTrigger == pc = "main" /\ DmaInterrupt

NextTrigger ==
    \/ CaptureToTrigger
    \/ IcCallbackEnter
    \/ CnCallbackEnter
    \/ TriggerStatement
    \/ StopCommand
    \/ PinChange
    \/ DmaTransfer
    \/ DmaInterruptAfterTrigger

SpecTrigger == Init /\ [][NextTrigger]_vars

(***************************************************************************)
(* Captures that are left to run: LA_stop is not called, and a pending     *)
(* interrupt or DMA transfer is not put off forever.                       *)
(***************************************************************************)
\* The request values offered where progress is what matters.
LivenessEvents == {100}

CaptureNoStop == CaptureFrom(LivenessEvents)

NextLive ==
    \/ CaptureNoStop
    \/ IcInterrupt
    \/ CnInterrupt
    \/ DmaTransfer
    \/ DmaInterrupt

SpecLive ==
    /\ Init
    /\ [][NextLive]_vars
    /\ WF_vars(IcInterrupt)
    /\ WF_vars(CnInterrupt)
    /\ WF_vars(DmaTransfer)
    /\ WF_vars(DmaInterrupt)

(***************************************************************************)
(* LA_capture sent at any time, also while an earlier capture is armed or  *)
(* running: LA_capture itself does not look at the state of the driver.    *)
(***************************************************************************)
\* The request values offered where the overlap of sessions is what matters.
OverlapChannelArgs == {1, 2}
OverlapEvents == {100}
OverlapEdges == {EDGE_RISING, EDGE_ANY}
OverlapTriggerPins == {CHANNEL_1, CHANNEL_NONE}

CaptureAnyTime ==
    /\ pc = "main"
    /\ \E n \in OverlapChannelArgs, ev \in OverlapEvents, e \in OverlapEdges,
          t \in OverlapTriggerPins :
           LET r == LA_capture(State, n, ev, e, t)
           IN  /\ r.resp = SUCCESS
               /\ Commit(r.st)
               /\ call' = Ran("LA_capture", r.resp, 0)
               /\ sess' = [n |-> n, events |-> ev, edge |-> e, trig |-> t]
               /\ UNCHANGED <<pc, stop_i>>

NextOverlap ==
    \/ CaptureAnyTime
    \/ StopCommand
    \/ IcInterrupt
    \/ CnInterrupt
    \/ DmaTransfer
    \/ DmaInterrupt

SpecOverlap == Init /\ [][NextOverlap]_vars

(***************************************************************************)
(* Properties.                                                             *)
(***************************************************************************)
Accepted == call.op = "LA_capture" /\ call.ret = SUCCESS
Rejected == call.op = "LA_capture" /\ call.ret = ARGUMENT_ERROR
Deferred == sess.n >= 1 /\ sess.trig # CHANNEL_NONE
NoDmaStarted(d) == \A c \in Channels : ~d[c].enabled
NoIcArmed(i) == \A c \in Channels : ~i[c].int_en

\* First timestamp offset of region i of n, and the size of a region.
RegionStart(i, n) == (i * BUFFER_SIZE) \div n
RegionSize(n) == BUFFER_SIZE \div n

\* C1: in every reachable state, a request with channel_count = 0,
\* channel_count > 4 or edge = NONE, whatever its other fields, makes
\* LA_capture return ARGUMENT_ERROR with the whole machine state (Timer, IC
\* units, DMA channels, CN, g_num_channels, g_initial_states) as it was.
C1_RejectedRequestChangesNothing ==
    LET S == State
        unchanged == [st |-> S, resp |-> ARGUMENT_ERROR]
    IN  \A n \in ChannelArgs, e \in Edges :
            (n = 0 \/ n > CHANNEL_NUMEL \/ e = EDGE_NONE) =>
                \A ev \in EventValues, t \in TriggerPins :
                    LA_capture(S, n, ev, e, t) = unchanged

\* A request was rejected in the middle of a running two-channel capture.
C1_Witness ==
    /\ Rejected
    /\ tmr.running
    /\ sess.n = 2
    /\ dma[CHANNEL_1].enabled

\* C2: every valid request is answered SUCCESS, and when LA_capture has
\* returned the DMA destinations of channels 0 .. n-1 are i*BUFFER_SIZE/n:
\* n regions of BUFFER_SIZE/n timestamps, starting at the buffer's base,
\* each beginning where the previous one ends, pairwise disjoint and inside
\* the buffer; the other channels are not configured.
C2_BufferPartition ==
    /\ AllIdle(State) =>
           \A n \in ChannelArgs, e \in Edges :
               ValidRequest(n, e) =>
                   \A ev \in EventValues, t \in TriggerPins :
                       LA_capture(State, n, ev, e, t).resp = SUCCESS
    /\ Accepted =>
           LET n == sess.n
               size == RegionSize(n)
           IN  /\ \A i \in 0 .. (n - 1) :
                      /\ dma[i].addr = RegionStart(i, n)
                      /\ dma[i].addr + size <= BUFFER_SIZE
               /\ dma[0].addr = 0
               /\ \A i \in 0 .. (n - 2) : dma[i + 1].addr = dma[i].addr + size
               /\ \A i, j \in 0 .. (n - 1) :
                      i < j => dma[i].addr + size <= dma[j].addr
               /\ \A c \in Channels : c >= n => dma[c] = DmaIdle

\* A three-channel request has just been accepted.
C2_Witness ==
    /\ Accepted
    /\ sess.n = 3
    /\ dma[CHANNEL_3].addr = 6666

\* C3 as stated: each active channel's DMA count is total_events divided by
\* channel_count.
C3_TransferCountIsShare ==
    Accepted =>
        \A i \in 0 .. (sess.n - 1) : dma[i].count = sess.events \div sess.n

\* C3 as the code has it: when LA_capture has returned, each active
\* channel's DMA count is the requested event count itself, undivided.
C3_TransferCountIsEvents ==
    Accepted => \A i \in 0 .. (sess.n - 1) : dma[i].count = sess.events

\* channel_count = 2, events = 100: both channels are set up for 100 events.
C3_Witness ==
    /\ Accepted
    /\ sess.n = 2
    /\ sess.events = 100
    /\ dma[CHANNEL_1].count = 100
    /\ dma[CHANNEL_2].count = 100

\* C4: every timestamp a channel's DMA has written lies inside that
\* channel's region of the sample buffer (and so inside the buffer).
C4_WritesStayInRegion ==
    \A i \in Channels :
        (i < sess.n /\ dma[i].enabled /\ dma[i].done > 0) =>
            /\ RegionStart(i, sess.n) <= dma[i].addr
            /\ dma[i].addr + dma[i].done
                   <= RegionStart(i, sess.n) + RegionSize(sess.n)

\* C5: when a request with trigger_channel = NONE has been accepted and
\* LA_capture has returned, the Timer runs with its period back at 0,
\* g_initial_states holds the pin levels of that moment, every active
\* channel's DMA is started, and neither CN nor any IC interrupt is armed.
C5_ImmediateTrigger ==
    (Accepted /\ sess.trig = CHANNEL_NONE) =>
        /\ tmr = [running |-> TRUE, period |-> 0]
        /\ g_initial_states = pins
        /\ \A i \in 0 .. (sess.n - 1) : dma[i].enabled
        /\ ~cn.armed
        /\ NoIcArmed(ic)

\* An immediate three-channel capture started while the pins read 1.
C5_Witness ==
    /\ Accepted
    /\ sess.trig = CHANNEL_NONE
    /\ sess.n = 3
    /\ pins = 1
    /\ g_initial_states = 1
    /\ dma[CHANNEL_3].enabled

\* C6: a request with a trigger channel and edge = ANY leaves LA_capture
\* with CN armed on that channel, no IC interrupt armed, and the Timer, the
\* DMA channels and g_initial_states untouched; while CN stays armed every
\* step other than the CN callback leaves them so, and the CN callback
\* starts the Timer.
C6_StepAny ==
    /\ (Accepted' /\ sess'.trig # CHANNEL_NONE /\ sess'.edge = EDGE_ANY) =>
           /\ cn' = [armed |-> TRUE, pin |-> sess'.trig]
           /\ NoIcArmed(ic')
           /\ tmr' = tmr
           /\ NoDmaStarted(dma')
           /\ g_initial_states' = g_initial_states
    /\ (Deferred /\ sess.edge = EDGE_ANY /\ cn.armed) =>
           IF call'.op = "cn_callback"
           THEN tmr'.running /\ ~cn'.armed
           ELSE /\ ~tmr'.running
                /\ NoDmaStarted(dma')
                /\ g_initial_states' = g_initial_states

\* C6: every step satisfies C6_StepAny: with a trigger channel and edge = ANY
\* the trigger sequence is deferred to the change notification.
C6_DeferredToChangeNotification == [][C6_StepAny]_vars

\* LA_capture has returned with CN armed on channel 3 and nothing started.
C6_Witness ==
    /\ Accepted
    /\ sess.edge = EDGE_ANY
    /\ sess.trig = CHANNEL_3
    /\ cn = [armed |-> TRUE, pin |-> CHANNEL_3]
    /\ ~tmr.running

\* C7: a request with a trigger channel and edge RISING or FALLING leaves
\* LA_capture with the IC interrupt armed on exactly that channel, CN not
\* armed, and the Timer, the DMA channels and g_initial_states untouched;
\* while that interrupt stays armed every step other than the IC callback
\* of that channel leaves them so, and the IC callback starts the Timer.
C7_StepSingleEdge ==
    /\ (/\ Accepted'
        /\ sess'.trig # CHANNEL_NONE
        /\ sess'.edge \in {EDGE_RISING, EDGE_FALLING}) =>
           /\ \A c \in Channels : ic'[c].int_en <=> (c = sess'.trig)
           /\ cn' = CnIdle
           /\ tmr' = tmr
           /\ NoDmaStarted(dma')
           /\ g_initial_states' = g_initial_states
    /\ (/\ Deferred
        /\ sess.edge \in {EDGE_RISING, EDGE_FALLING}
        /\ ic[sess.trig].int_en) =>
           IF call'.op = "ic_callback"
           THEN call'.val = sess.trig /\ tmr'.running /\ NoIcArmed(ic')
           ELSE /\ ~tmr'.running
                /\ NoDmaStarted(dma')
                /\ g_initial_states' = g_initial_states

\* C7: every step satisfies C7_StepSingleEdge: with a trigger channel and
\* edge RISING or FALLING the trigger sequence is deferred to that channel's
\* IC interrupt.
C7_DeferredToInputCapture == [][C7_StepSingleEdge]_vars

\* LA_capture has returned with the IC interrupt of channel 2 armed.
C7_Witness ==
    /\ Accepted
    /\ sess.edge = EDGE_FALLING
    /\ sess.trig = CHANNEL_2
    /\ ic[CHANNEL_2].int_en
    /\ ~ic[CHANNEL_1].int_en
    /\ ~tmr.running

\* C8: when LA_stop, run without interruption, has returned, its response
\* is SUCCESS, CN is disarmed, the Timer is reset and all four IC units and
\* all four DMA channels are in their reset state, whatever state the
\* capture was in.
C8_StopResetsEverything ==
    call.op = "LA_stop" => call.ret = SUCCESS /\ AllIdle(State)

\* LA_stop ended a three-channel capture of which two channels had completed.
C8_Witness ==
    /\ call.op = "LA_stop"
    /\ call.val = 3
    /\ g_num_channels = 1

\* C9: LA_stop called while every resource is idle answers SUCCESS and
\* leaves every resource idle, and LA_stop run directly after LA_stop
\* changes nothing: not the peripherals, not g_num_channels, not
\* g_initial_states.
C9_StepStop ==
    call'.op = "LA_stop" =>
        /\ call'.ret = SUCCESS
        /\ AllIdle(State) => AllIdle([State EXCEPT !.tmr = tmr', !.ic = ic',
                                                    !.cn = cn', !.dma = dma'])
        /\ call.op = "LA_stop" => hw' = hw

\* C9: every step satisfies C9_StepStop: LA_stop is idempotent.
C9_StopIdempotent == [][C9_StepStop]_vars

\* LA_stop has run with no session in flight.
C9_Witness ==
    /\ call.op = "LA_stop"
    /\ call.val = 0
    /\ AllIdle(State)

\* C10: when LA_stop has returned, whatever callbacks were serviced between
\* its statements, the Timer is stopped, no trigger source is armed and all
\* four IC units and DMA channels are idle.
C10_StopSafeUnderPreemption ==
    (call.op = "LA_stop" /\ pc = "main") => AllIdle(State)

\* The step that has just run went through trigger(): a trigger callback,
\* or LA_capture with trigger_pin = CHANNEL_NONE.
TriggerRan ==
    \/ call.op \in {"ic_callback", "cn_callback"}
    \/ Accepted /\ sess.trig = CHANNEL_NONE

\* C11: LA_get_initial_states answers SUCCESS, sends g_initial_states and
\* changes nothing; a step that runs the trigger sequence stores the pin
\* levels of that moment in g_initial_states, and every other step
\* (LA_capture with a deferred trigger or rejected, LA_stop, the completion
\* callback, the accessor, the hardware) leaves g_initial_states as it was.
C11_StepSnapshotFrame ==
    /\ call'.op = "LA_get_initial_states" =>
           /\ call'.ret = SUCCESS
           /\ call'.val = g_initial_states
           /\ hw' = hw
           /\ pins' = pins
    /\ IF TriggerRan'
       THEN g_initial_states' = pins
       ELSE g_initial_states' = g_initial_states

\* C11: every step satisfies C11_StepSnapshotFrame: the snapshot is written
\* only by the trigger sequence and read back unchanged by the accessor.
C11_SnapshotOnlyByTrigger == [][C11_StepSnapshotFrame]_vars

\* The accessor sent the snapshot 1 of an earlier capture, taken when the
\* pins read 1, while the pins read 0 and a later capture awaited its trigger.
C11_Witness ==
    /\ call.op = "LA_get_initial_states"
    /\ call.val = 1
    /\ pins = 0
    /\ Deferred
    /\ ~tmr.running

\* The machine state a step leads to.
StateAfter ==
    [tmr |-> tmr', ic |-> ic', cn |-> cn', dma |-> dma',
     g_num_channels |-> g_num_channels',
     g_initial_states |-> g_initial_states',
     pins |-> pins']

\* The DMA channels that are started, and the channels k and above among
\* the n channels capture() configured.
Started(d) == {c \in Channels : d[c].enabled}
FromDown(k, n) == {c \in Channels : k <= c /\ c < n}
TmrSync == [running |-> TRUE, period |-> 1]

\* C12: wherever trigger() has got to, what it has done so far is a prefix
\* of: period 1, Timer started, pins stored in g_initial_states, DMA
\* channels started from the highest configured channel down to CHANNEL_1,
\* period 0.  The Timer is started with period 1 set and no DMA started;
\* the snapshot comes before the first DMA start; DMA channel k is started
\* when exactly the configured channels above k are; the period goes back
\* to 0 when exactly the configured channels 0 .. n-1 are started, and
\* trigger() returns with exactly those started.  The statements taken one
\* after another have the effect of trigger() as a whole.
C12_StepTriggerOrder ==
    LET n == sess'.n
        started == Started(dma')
    IN  /\ (pc = "main" /\ pc' = "t_period") =>
               /\ ~tmr'.running
               /\ started = {}
               /\ trigger_run(StateAfter, "t_period") = trigger(StateAfter)
        /\ pc' = "t_start" =>
               tmr' = [running |-> FALSE, period |-> 1] /\ started = {}
        /\ pc' \in {"t_snapshot", "t_switch"} =>
               tmr' = TmrSync /\ started = {}
        /\ (pc = "t_snapshot" /\ pc' # pc) =>
               pc' = "t_switch" /\ g_initial_states' = pins
        /\ pc' = "t_dma4" =>
               tmr' = TmrSync /\ n = 4 /\ started = {}
        /\ pc' = "t_dma3" =>
               tmr' = TmrSync /\ n >= 3 /\ started = FromDown(3, n)
        /\ pc' = "t_dma2" =>
               tmr' = TmrSync /\ n >= 2 /\ started = FromDown(2, n)
        /\ pc' = "t_dma1" =>
               tmr' = TmrSync /\ n >= 1 /\ started = FromDown(1, n)
        /\ pc' = "t_restore" =>
               tmr' = TmrSync /\ started = FromDown(0, n)
        /\ (pc \in TriggerLabels /\ pc' = "main") =>
               /\ pc = "t_restore"
               /\ tmr' = [running |-> TRUE, period |-> 0]
               /\ started = FromDown(0, n)
               /\ call'.op = "trigger"

\* C12: every step satisfies C12_StepTriggerOrder: the trigger sequence runs
\* in the stated order and starts exactly the configured DMA channels.
C12_TriggerOrder == [][C12_StepTriggerOrder]_vars

\* trigger(), run from ic_callback in a four-channel capture, has started
\* DMA channels 4 and 3 and not yet 2 and 1, with the period still at 1.
C12_Witness ==
    /\ pc = "t_dma2"
    /\ sess.n = 4
    /\ sess.edge = EDGE_RISING
    /\ sess.trig = CHANNEL_2
    /\ tmr = TmrSync
    /\ Started(dma) = {CHANNEL_3, CHANNEL_4}

\* The trigger sources that are armed: IC interrupts and CN.
ArmedSources(i, c) ==
    Cardinality({k \in Channels : i[k].int_en}) + (IF c.armed THEN 1 ELSE 0)

\* C13: a trigger callback runs with its own source armed and leaves it
\* disarmed; a step that runs the trigger sequence starts from a stopped
\* Timer with no DMA started and ends with the Timer running and no trigger
\* source armed; a source is armed only by an accepted LA_capture with a
\* trigger pin, which arms exactly one; and none is armed while the Timer
\* runs.  So between two LA_capture calls the trigger sequence runs at most
\* once.
C13_StepOneShot ==
    /\ call'.op = "ic_callback" =>
           ic[call'.val].int_en /\ ~ic'[call'.val].int_en
    /\ call'.op = "cn_callback" => cn.armed /\ ~cn'.armed
    /\ TriggerRan' =>
           /\ ~tmr.running
           /\ NoDmaStarted(dma)
           /\ tmr'.running
           /\ ArmedSources(ic', cn') = 0
    /\ ArmedSources(ic', cn') > ArmedSources(ic, cn) =>
           /\ Accepted'
           /\ sess'.trig # CHANNEL_NONE
           /\ ArmedSources(ic, cn) = 0
           /\ ArmedSources(ic', cn') = 1
    /\ tmr'.running => ArmedSources(ic', cn') = 0

\* C13: every step satisfies C13_StepOneShot: a deferred trigger fires once.
C13_TriggerOneShot == [][C13_StepOneShot]_vars

\* ic_callback has run for a capture triggered by IC1: IC1 still captures,
\* its interrupt is off, the Timer runs.
C13_Witness ==
    /\ call.op = "ic_callback"
    /\ call.val = CHANNEL_1
    /\ sess.trig = CHANNEL_1
    /\ ic[CHANNEL_1].active
    /\ ~ic[CHANNEL_1].int_en
    /\ tmr.running

\* C14: the completion callback of channel c, run while the Timer runs,
\* puts DMA channel c and IC unit c in their reset state and leaves the DMA
\* channels and IC units of the other channels, CN and g_initial_states as
\* they were; g_num_channels goes down by exactly one; the Timer is reset
\* when g_num_channels has reached zero and is left running otherwise.
C14_StepCompletion ==
    call'.op = "cleanup_callback" =>
        LET c == call'.val
        IN  /\ dma[c].enabled
            /\ tmr.running
            /\ dma'[c] = DmaIdle
            /\ ic'[c] = IcIdle
            /\ \A d \in Channels \ {c} : dma'[d] = dma[d] /\ ic'[d] = ic[d]
            /\ cn' = cn
            /\ g_initial_states' = g_initial_states
            /\ g_num_channels' = g_num_channels - 1
            /\ tmr' = IF g_num_channels' = 0 THEN TmrIdle ELSE tmr

\* C14: every step satisfies C14_StepCompletion, in whatever order the
\* channels complete.
C14_CompletionPerChannel == [][C14_StepCompletion]_vars

\* Channel 2 of a four-channel capture completed first: the counter is 3,
\* the Timer runs, channels 1, 3 and 4 are still started.
C14_Witness ==
    /\ call.op = "cleanup_callback"
    /\ call.val = CHANNEL_2
    /\ sess.n = 4
    /\ g_num_channels = 3
    /\ tmr.running
    /\ Started(dma) = {CHANNEL_1, CHANNEL_3, CHANNEL_4}
    /\ ic[CHANNEL_2] = IcIdle
    /\ ic[CHANNEL_4].active

\* C15: in a capture of sess.n channels the k-th completion callback, k
\* counted as the session's channels whose DMA is back in reset, runs while
\* the Timer runs; for k < sess.n it leaves the Timer running; for
\* k = sess.n it resets the Timer and leaves no trigger source armed and
\* every IC unit and DMA channel idle, so that no completion is pending and
\* the Timer is not reset by a completion again.
C15_StepLastCompletion ==
    call'.op = "cleanup_callback" =>
        LET completed == {c \in 0 .. (sess.n - 1) : dma'[c] = DmaIdle}
            k == Cardinality(completed)
        IN  /\ tmr.running
            /\ 1 <= k /\ k <= sess.n
            /\ k < sess.n => tmr' = tmr
            /\ k = sess.n =>
                   /\ tmr' = TmrIdle
                   /\ AllIdle(StateAfter)
                   /\ \A c \in Channels :
                          ~(dma'[c].enabled /\ dma'[c].int_en)

\* C15: every step satisfies C15_StepLastCompletion: the completion path
\* resets the Timer once, at the last completion.
C15_TimerResetByLastCompletion == [][C15_StepLastCompletion]_vars

\* The last of at least three completions, that of channel 3, has reset the
\* Timer: the counter is 0 and everything is idle.
C15_Witness ==
    /\ call.op = "cleanup_callback"
    /\ call.val = CHANNEL_3
    /\ g_num_channels = 0
    /\ tmr = TmrIdle
    /\ AllIdle(State)

\* The state a completed capture leaves behind.
Quiescent == g_num_channels = 0 /\ AllIdle(State)

\* C16: when the trigger sequence has run, LA_stop is not called and the
\* DMA transfers and completion interrupts are not put off forever, the
\* driver comes to the state with g_num_channels = 0, the Timer reset and
\* every IC unit and DMA channel idle.
C16_TriggeredCaptureCompletes == TriggerRan ~> Quiescent

\* A four-channel capture has run to its end with channel 4 completing last.
C16_Witness ==
    /\ call.op = "cleanup_callback"
    /\ call.val = CHANNEL_4
    /\ Quiescent
    /\ sess = NoSession

\* C17: when LA_capture has armed a deferred trigger source and returned,
\* g_num_channels is the new session's channel count and g_initial_states
\* is 0, not the snapshot of an earlier capture.
C17_SingletonsResetBeforeArming ==
    (Accepted /\ sess.trig # CHANNEL_NONE) =>
        g_num_channels = sess.n /\ g_initial_states = 0

C19_NoEarlyTimerResetNoWrap ==
    /\ (call.op = "cleanup_callback" /\ g_num_channels = 0) =>
           Started(dma) = {}
    /\ g_num_channels <= CHANNEL_NUMEL

\* C20: when LA_capture has accepted a request with a trigger pin, whatever
\* its channel count, its edge and its trigger pin, and the interrupts are
\* not put off forever, the trigger sequence runs: the Timer runs and the
\* session's DMA channels are started.
C20_DeferredTriggerFires ==
    (Accepted /\ sess.trig # CHANNEL_NONE) ~>
        (tmr.running /\ Started(dma) = FromDown(0, sess.n))

=============================================================================
